---- MODULE Spec2Model ----
(***************************************************************************)
(* The SSH bootstrap of recent_projects/src/ssh_connection_modal.rs:       *)
(* the SshPrompt view (status line, single prompt slot, input editor),     *)
(* the SshClientDelegate callbacks (ask_password, set_status,              *)
(* get_server_binary), the server-binary resolution task and the           *)
(* open_ssh_project controller.  An Option<T> is a sequence of length at   *)
(* most one: <<>> is None and <<x>> is Some(x).  A string that the code    *)
(* searches is a sequence of words.                                        *)
(* The last part is the inline git blame checkbox of                      *)
(* editor/src/editor_settings_controls.rs (InlineGitBlameControl).         *)
(***************************************************************************)
EXTENDS Integers, Sequences, FiniteSets, TLC

\* ------------------------------------------------------------------ bounds
\* ask_password calls the transport makes in one attempt
MaxPrompts == 2
\* paths handed to open_ssh_project
MaxPaths == 2
\* get_server_binary calls the transport makes in one attempt
MaxResolves == 1
\* clicks on the inline git blame checkbox
MaxClicks == 5

\* ------------------------------------------------------------------ inputs
None == <<>>
Some(x) == <<x>>

Passwords == {"secret1"}
Texts == {"123456"}
PromptMsgs == {<<"Password:">>, <<"Continue", "yes/no", "?">>}
TransportStatuses == {None, Some("connecting")}
StatusBuilding == "building remote server binary from source"
StatusChecking == "checking for latest version of remote server"
ReleaseChannels == {"Dev", "Stable"}
AllReleaseChannels == {"Dev", "Nightly", "Preview", "Stable"}
LocalOS == "linux"
LocalArch == "x86_64"
Platforms ==
    {[os |-> "linux", arch |-> "x86_64"], [os |-> "macos", arch |-> "x86_64"],
     [os |-> "linux", arch |-> "aarch64"]}
FetchErrors == {"lookup failed"}
PromptIds == 1..MaxPrompts
Selections == {"Selected", "Unselected", "Indeterminate"}
\* the fields of InlineBlameSettings besides enabled, as one value
OtherFields == {"default", "custom"}
DefaultFields == "default"
InlineBlameSettings == [enabled : BOOLEAN, others : OtherFields]

VARIABLES
    \* ConnectionOptions and build configuration, fixed for the attempt
    password,        \* connection_options.password : Option<String>
    npaths,          \* paths.len()
    debug_assertions,\* cfg(debug_assertions) of the running build
    release_channel, \* ReleaseChannel::global
    \* SshPrompt
    status_message,  \* Option<SharedString>
    prompt,          \* Option<(message, oneshot::Sender)>; the sender is a channel id
    editor_text,     \* the single-line editor's buffer
    redact_all,      \* the editor's masking mode
    \* oneshot channels made by ask_password, by call number
    chan,
    \* SshClientDelegate
    known_password,
    \* window opened by open_ssh_project
    window,          \* "none" | "open" | "removed"
    root,            \* root view of the window: "local" | "remote"
    \* handshake task (remote::SshSession::client) and open_ssh_project
    hs,              \* "none" | "running" | "ok" | "err"
    opj,             \* "start" | "await_handshake" | "worktrees" | "done_ok" | "done_err"
    sessions_handed, \* times a session was given to Project::ssh
    worktrees,       \* find_or_create_worktree calls that were started
    dismissed_in,    \* hs at the time the operator dismissed, "" before
    wt_failed,       \* the number of the path whose worktree failed, 0 if none
    \* get_server_binary_impl
    rpc,             \* "idle" | "spawned" | "cargo" | "strip" | "gzip" | "fetch" | "done"
    platform,        \* the requested SshPlatform
    resolves,        \* get_server_binary calls so far
    rlog,            \* what the running resolution did, in order
    fetch_reply,     \* Option: what the release-fetch collaborator answered
    rresult,         \* Option: what get_server_binary_impl returned
    \* remote_server_binary_path
    remote_path,     \* Option: what the latest call returned
    \* InlineGitBlameControl
    inline_blame,    \* Option: settings.git.inline_blame of the settings file
    written          \* the values the checkbox handed to write, in order

cfgVars == <<password, npaths, debug_assertions, release_channel>>
uiVars == <<status_message, prompt, editor_text, redact_all>>
winVars == <<window, root>>
ctlVars == <<hs, opj, sessions_handed, worktrees, dismissed_in, wt_failed>>
resVars == <<rpc, platform, resolves, rlog, fetch_reply, rresult>>
setVars == <<inline_blame, written>>
vars ==
    <<cfgVars, uiVars, chan, known_password, winVars, ctlVars, resVars, remote_path, setVars>>

\* ------------------------------------------------------------ oneshot
\* A channel: "unused" (not made), "pending" (both ends alive, nothing sent),
\* "abandoned" (receiver dropped, sender alive), "cancelled" (sender dropped
\* without sending), "answered" (a value was sent), "closed" (both ends gone).
\* msg is the question the live sender belongs to; by is who answered.
Unused == [st |-> "unused", msg |-> <<>>, val |-> "", by |-> ""]
Channel(msg) == [st |-> "pending", msg |-> msg, val |-> "", by |-> ""]

\* tx.send(Ok(text)).ok(): delivered when the receiver is alive, else lost
Send(c, text, by) ==
    IF c.st = "pending"
    THEN [st |-> "answered", msg |-> <<>>, val |-> text, by |-> by]
    ELSE IF c.st = "abandoned" THEN [c EXCEPT !.st = "closed", !.msg = <<>>]
    ELSE c

\* dropping a sender that was never used
DropTx(c) ==
    IF c.st = "pending" THEN [c EXCEPT !.st = "cancelled", !.msg = <<>>]
    ELSE IF c.st = "abandoned" THEN [c EXCEPT !.st = "closed", !.msg = <<>>]
    ELSE c

\* dropping the sender held in an Option<(message, sender)>
DropHeld(ch, p) ==
    IF p = None THEN ch ELSE [ch EXCEPT ![p[1].tx] = DropTx(ch[p[1].tx])]

Calls == Cardinality({i \in PromptIds : chan[i].st # "unused"})

\* str::contains on a sequence of words
Contains(msg, word) == \E k \in 1..Len(msg) : msg[k] = word

\* the state before open_ssh_project, the release channel being one of channels
InitState(channels) ==
    /\ password \in {None} \cup {Some(p) : p \in Passwords}
    /\ npaths \in 0..MaxPaths
    /\ debug_assertions \in BOOLEAN
    /\ release_channel \in channels
    /\ status_message = None
    /\ prompt = None
    /\ editor_text = ""
    /\ redact_all = FALSE
    /\ chan = [i \in PromptIds |-> Unused]
    /\ known_password = None
    /\ window = "none"
    /\ root = "local"
    /\ hs = "none"
    /\ opj = "start"
    /\ sessions_handed = 0
    /\ worktrees = 0
    /\ dismissed_in = ""
    /\ wt_failed = 0
    /\ rpc = "idle"
    /\ platform = [os |-> LocalOS, arch |-> LocalArch]
    /\ resolves = 0
    /\ rlog = <<>>
    /\ fetch_reply = None
    /\ rresult = None
    /\ remote_path = None

\* a settings file without git.inline_blame that the checkbox never wrote
NoSettings ==
    /\ inline_blame = None
    /\ written = <<>>

Init == InitState(ReleaseChannels) /\ NoSettings

\* ------------------------------------------------------------ SshPrompt
\* SshPrompt::new
NewPrompt ==
    /\ status_message' = None
    /\ prompt' = None
    /\ editor_text' = ""
    /\ redact_all' = FALSE

\* mutant: the new prompt is stored without releasing the sender held before
set_prompt_keeps_old(msg, tx, ch) ==
    /\ redact_all' = ~Contains(msg, "yes/no")
    /\ prompt' = Some([msg |-> msg, tx |-> tx])
    /\ chan' = ch
    /\ status_message' = None
    /\ UNCHANGED editor_text

\* mutant: the input is masked whatever the message says
set_prompt_always_masks(msg, tx, ch) ==
    /\ redact_all' = TRUE
    /\ prompt' = Some([msg |-> msg, tx |-> tx])
    /\ chan' = DropHeld(ch, prompt)
    /\ status_message' = None
    /\ UNCHANGED editor_text

\* SshPrompt::set_prompt(prompt, tx), ch being the channels at the call:
\* assigning self.prompt drops the sender that was held there
set_prompt(msg, tx, ch) ==
    /\ redact_all' = ~Contains(msg, "yes/no")
    /\ prompt' = Some([msg |-> msg, tx |-> tx])
    /\ chan' = DropHeld(ch, prompt)
    /\ status_message' = None
    /\ UNCHANGED editor_text

\* mutant: a status update takes the prompt off the surface
set_status_clears_prompt(status) ==
    /\ status_message' = status
    /\ prompt' = None
    /\ chan' = DropHeld(chan, prompt)
    /\ UNCHANGED <<editor_text, redact_all>>

\* SshPrompt::set_status(status)
set_status(status) ==
    /\ status_message' = status
    /\ UNCHANGED <<prompt, editor_text, redact_all, chan>>

\* mutant: the editor is not cleared after the answer is sent
confirm_keeps_buffer ==
    IF prompt # None
    THEN /\ chan' = [chan EXCEPT ![prompt[1].tx] = Send(@, editor_text, "operator")]
         /\ prompt' = None
         /\ UNCHANGED <<status_message, redact_all, editor_text>>
    ELSE UNCHANGED <<uiVars, chan>>

\* mutant: a failed send returns before the editor is cleared
confirm_returns_on_error ==
    IF prompt # None
    THEN /\ chan' = [chan EXCEPT ![prompt[1].tx] = Send(@, editor_text, "operator")]
         /\ editor_text' = IF chan[prompt[1].tx].st = "pending" THEN "" ELSE editor_text
         /\ prompt' = None
         /\ UNCHANGED <<status_message, redact_all>>
    ELSE UNCHANGED <<uiVars, chan>>

\* SshPrompt::confirm
confirm ==
    IF prompt # None
    THEN /\ chan' = [chan EXCEPT ![prompt[1].tx] = Send(@, editor_text, "operator")]
         /\ editor_text' = ""
         /\ prompt' = None
         /\ UNCHANGED <<status_message, redact_all>>
    ELSE UNCHANGED <<uiVars, chan>>

\* Render for SshPrompt: the children of the v_flex, in order
Label(text) == [kind |-> "label", text |-> text]
EditorChild == [kind |-> "editor", text |-> <<>>]

\* mutant: the prompt is rendered only when there is no status
Render_status_first(status, p) ==
    <<Label(<<"SSH:", "host">>)>>
        \o (IF status # None THEN <<Label(<<status[1]>>)>>
            ELSE IF p # None THEN <<Label(p[1].msg), EditorChild>> ELSE <<>>)

Render(status, p) ==
    <<Label(<<"SSH:", "host">>)>>
        \o (IF status # None THEN <<Label(<<status[1]>>)>> ELSE <<>>)
        \o (IF p # None THEN <<Label(p[1].msg), EditorChild>> ELSE <<>>)

\* The SshPrompt view lives while a strong View<SshPrompt> handle exists: the
\* one of SshConnectionModal (in the window, until the root view is replaced or
\* the window removed) and the one of SshClientDelegate (held by the handshake).
Owned(w, r, h) == (w = "open" /\ r = "local") \/ h \in {"running", "ok"}

\* What is left of the view after the handles became (w, r, h): once the last
\* handle is gone the view is dropped, and with it the sender in its prompt.
Release(w, r, h) ==
    IF Owned(w, r, h)
    THEN UNCHANGED <<uiVars, chan>>
    ELSE /\ NewPrompt
         /\ chan' = DropHeld(chan, prompt)

\* ------------------------------------------------------------- transport
\* remote::SshSession::client is outside these files: it calls the delegate
\* while it runs and ends with a session or an error.  While it waits for
\* get_server_binary it makes no other call and does not end, and it does not
\* succeed while it waits for an answer or after a refusal.  It asks for the
\* server binary only when no answer is awaited, but it may ask again while a
\* prompt is unanswered (set_prompt then replaces the earlier prompt).
Waiting == \E i \in PromptIds : chan[i].st = "pending"
Refused == \E i \in PromptIds : chan[i].st = "cancelled"
Resolving == rpc \notin {"idle", "done"}

\* ------------------------------------------------------- SshClientDelegate
\* mutant: the view is updated without going through the window
update_status_ignores_window(status) == set_status(status)

\* SshClientDelegate::update_status: window.update(..).ok()
update_status(status) ==
    IF window = "open" THEN set_status(status) ELSE UNCHANGED <<uiVars, chan>>

\* SshClientDelegate::ask_password, the transport's call number Calls + 1
ask_password(msg) ==
    /\ hs = "running" /\ ~Resolving
    /\ Calls < MaxPrompts
    /\ LET tx == Calls + 1
           ch == [chan EXCEPT ![tx] = Channel(msg)]
           cached == known_password      \* self.known_password.clone()
       IN  IF cached # None
           THEN /\ chan' = [ch EXCEPT ![tx] = Send(@, cached[1], "cache")]
                /\ UNCHANGED uiVars
           ELSE IF window = "open"
                THEN set_prompt(msg, tx, ch)
                ELSE /\ chan' = [ch EXCEPT ![tx] = DropTx(@)]
                     /\ UNCHANGED uiVars
    /\ UNCHANGED <<cfgVars, setVars, remote_path, known_password, winVars, ctlVars, resVars>>

\* remote::SshClientDelegate::set_status
delegate_set_status(status) ==
    /\ hs = "running" /\ ~Resolving
    /\ update_status(status)
    /\ UNCHANGED <<cfgVars, setVars, remote_path, known_password, winVars, ctlVars, resVars>>

\* ---------------------------------------------------------------- operator
\* the operator edits the input field shown with a prompt
Type(text) ==
    /\ window = "open" /\ root = "local" /\ prompt # None
    /\ editor_text' = text
    /\ UNCHANGED <<cfgVars, setVars, remote_path, status_message, prompt, redact_all, chan, known_password,
                   winVars, ctlVars, resVars>>

\* SshConnectionModal::confirm
ModalConfirm ==
    /\ window = "open" /\ root = "local"
    /\ confirm
    /\ UNCHANGED <<cfgVars, setVars, remote_path, known_password, winVars, ctlVars, resVars>>

\* SshConnectionModal::dismiss: cx.remove_window()
Dismiss ==
    /\ window = "open" /\ root = "local"
    /\ window' = "removed"
    /\ dismissed_in' = hs
    /\ Release("removed", root, hs)
    /\ UNCHANGED <<cfgVars, setVars, remote_path, known_password, root, hs, opj, sessions_handed, worktrees,
                   wt_failed, resVars>>

\* ------------------------------------------------------------- transport

\* the transport gives up waiting for an answer (drops the receiver)
Abandon(i) ==
    /\ hs = "running"
    /\ chan[i].st = "pending"
    /\ chan' = [chan EXCEPT ![i].st = "abandoned"]
    /\ UNCHANGED <<cfgVars, setVars, remote_path, uiVars, known_password, winVars, ctlVars, resVars>>

HandshakeSucceed ==
    /\ hs = "running" /\ ~Waiting /\ ~Refused /\ ~Resolving
    /\ (rresult # None => rresult[1].ok)
    /\ hs' = "ok"
    /\ UNCHANGED <<cfgVars, setVars, remote_path, uiVars, chan, known_password, winVars, opj, sessions_handed,
                   worktrees, dismissed_in, wt_failed, resVars>>

\* the handshake ends with an error, which drops the delegate
HandshakeFail ==
    /\ hs = "running" /\ ~Resolving
    /\ hs' = "err"
    /\ Release(window, root, "err")
    /\ UNCHANGED <<cfgVars, setVars, remote_path, known_password, winVars, opj, sessions_handed, worktrees,
                   dismissed_in, wt_failed, resVars>>

\* the failures the transport owes: a refused prompt, a failed resolution
HandshakeAbort ==
    /\ Refused \/ (rresult # None /\ ~rresult[1].ok)
    /\ HandshakeFail

\* ------------------------------------------------------ open_ssh_project
\* open_ssh_project up to the await of the handshake: the window is opened,
\* the modal shown, connect_over_ssh spawns the handshake with a delegate
\* whose known_password is the connection's password
OpenWindow ==
    /\ opj = "start"
    /\ window' = "open"
    /\ root' = "local"
    /\ NewPrompt
    /\ known_password' = password
    /\ hs' = "running"
    /\ opj' = "await_handshake"
    /\ UNCHANGED <<cfgVars, setVars, remote_path, chan, sessions_handed, worktrees, dismissed_in,
                   wt_failed, resVars>>

\* mutant: Ok is returned without replacing the root view
Finish_keeps_root ==
    IF window = "open"
    THEN /\ opj' = "done_ok"
         /\ UNCHANGED <<winVars, uiVars, chan>>
    ELSE /\ opj' = "done_err"
         /\ UNCHANGED <<winVars, uiVars, chan>>

\* after the last worktree: replace_root_view and activate_window, each
\* through window.update(..)?
Finish ==
    IF window = "open"
    THEN /\ root' = "remote"
         /\ opj' = "done_ok"
         /\ Release(window, "remote", hs)
         /\ UNCHANGED window
    ELSE /\ opj' = "done_err"
         /\ UNCHANGED <<winVars, uiVars, chan>>

\* the handshake's result arrives: on an error the window is removed and the
\* error returned; else Project::ssh(session) and the first worktree
AwaitHandshake ==
    /\ opj = "await_handshake"
    /\ hs \in {"ok", "err"}
    /\ IF hs = "err"
       THEN /\ window' = "removed"
            /\ opj' = "done_err"
            /\ Release("removed", root, hs)
            /\ UNCHANGED <<root, sessions_handed, worktrees>>
       ELSE /\ sessions_handed' = sessions_handed + 1
            /\ IF npaths = 0
               THEN Finish /\ UNCHANGED worktrees
               ELSE /\ worktrees' = 1
                    /\ opj' = "worktrees"
                    /\ UNCHANGED <<winVars, uiVars, chan>>
    /\ UNCHANGED <<cfgVars, setVars, remote_path, known_password, hs, dismissed_in, wt_failed,
                   resVars>>

\* mutant: a failed worktree is skipped and the loop goes on
WorktreeDone_ignores_error(ok) ==
    /\ opj = "worktrees"
    /\ wt_failed' = IF ok THEN wt_failed ELSE worktrees
    /\ IF worktrees < npaths
       THEN /\ worktrees' = worktrees + 1
            /\ UNCHANGED <<opj, winVars, uiVars, chan>>
       ELSE Finish /\ UNCHANGED worktrees
    /\ UNCHANGED <<cfgVars, setVars, remote_path, known_password, hs, sessions_handed, dismissed_in, resVars>>

\* find_or_create_worktree(path).await? of the loop
WorktreeDone(ok) ==
    /\ opj = "worktrees"
    /\ IF ~ok
       THEN /\ opj' = "done_err"
            /\ wt_failed' = worktrees
            /\ UNCHANGED <<winVars, uiVars, chan, worktrees>>
       ELSE IF worktrees < npaths
            THEN /\ worktrees' = worktrees + 1
                 /\ UNCHANGED <<opj, winVars, uiVars, chan, wt_failed>>
            ELSE Finish /\ UNCHANGED <<worktrees, wt_failed>>
    /\ UNCHANGED <<cfgVars, setVars, remote_path, known_password, hs, sessions_handed, dismissed_in, resVars>>

\* ------------------------------------------------ get_server_binary_impl
Ok(v) == [ok |-> TRUE, val |-> v]
Err(e) == [ok |-> FALSE, val |-> e]
Ev(kind, what) == [ev |-> kind, what |-> what]
BuildCommands == <<"cargo", "strip", "gzip">>
LocalArtifact == "target/debug/remote_server.gz"

\* mutant: the architecture is not compared
LocalBuild_any_arch(pf) ==
    /\ debug_assertions
    /\ release_channel = "Dev"
    /\ pf.os = LocalOS

\* mutant: the channel comparison is inverted
LocalBuild_wrong_channel(pf) ==
    /\ debug_assertions
    /\ release_channel # "Dev"
    /\ pf.arch = LocalArch
    /\ pf.os = LocalOS

\* the condition of the dev-mode branch
LocalBuild(pf) ==
    /\ debug_assertions
    /\ release_channel = "Dev"
    /\ pf.arch = LocalArch
    /\ pf.os = LocalOS

\* mutant: the exit status is not looked at
run_cmd_ignores_status(success) == Ok("")

\* run_cmd: Ok(()) when the command's exit status is success
run_cmd(success) == IF success THEN Ok("") ELSE Err("failed to run command")

\* SshClientDelegate::get_server_binary: spawns get_server_binary_impl
get_server_binary(pf) ==
    /\ hs = "running"
    /\ ~Resolving /\ ~Waiting
    /\ resolves < MaxResolves
    /\ resolves' = resolves + 1
    /\ rpc' = "spawned"
    /\ platform' = pf
    /\ rlog' = <<>>
    /\ fetch_reply' = None
    /\ rresult' = None
    /\ UNCHANGED <<cfgVars, setVars, remote_path, uiVars, chan, known_password, winVars, ctlVars>>

\* get_server_binary_impl up to its first await
ImplStart ==
    /\ rpc = "spawned"
    /\ IF LocalBuild(platform)
       THEN /\ update_status(Some(StatusBuilding))
            /\ rlog' = <<Ev("status", StatusBuilding), Ev("run", "cargo")>>
            /\ rpc' = "cargo"
       ELSE /\ update_status(Some(StatusChecking))
            /\ rlog' = <<Ev("status", StatusChecking), Ev("fetch", "")>>
            /\ rpc' = "fetch"
    /\ UNCHANGED <<cfgVars, setVars, remote_path, known_password, winVars, ctlVars, platform, resolves,
                   fetch_reply, rresult>>

\* the running build command exits: run_cmd(..).await?, then the next command
CmdExit(success) ==
    /\ rpc \in {"cargo", "strip", "gzip"}
    /\ LET done == Append(rlog, Ev("exit", IF success THEN "ok" ELSE "fail"))
           r == run_cmd(success)
       IN  IF ~r.ok
           THEN /\ rresult' = Some(r)
                /\ rlog' = done
                /\ rpc' = "done"
           ELSE IF rpc = "cargo"
           THEN /\ rlog' = Append(done, Ev("run", "strip"))
                /\ rpc' = "strip"
                /\ UNCHANGED rresult
           ELSE IF rpc = "strip"
           THEN /\ rlog' = Append(done, Ev("run", "gzip"))
                /\ rpc' = "gzip"
                /\ UNCHANGED rresult
           ELSE /\ rresult' = Some(Ok(<<LocalArtifact, "app version">>))
                /\ rlog' = done
                /\ rpc' = "done"
    /\ UNCHANGED <<cfgVars, setVars, remote_path, uiVars, chan, known_password, winVars, ctlVars, platform,
                   resolves, fetch_reply>>

\* AutoUpdater::get_latest_remote_server_release(..).await? answers
FetchReturns(reply) ==
    /\ rpc = "fetch"
    /\ fetch_reply' = Some(reply)
    /\ rresult' = Some(IF reply.ok THEN Ok(<<reply.val, "app version">>) ELSE reply)
    /\ rpc' = "done"
    /\ UNCHANGED <<cfgVars, setVars, remote_path, uiVars, chan, known_password, winVars, ctlVars, platform,
                   resolves, rlog>>

FetchReplies == {Ok("release path")} \cup {Err(e) : e \in FetchErrors}

\* ------------------------------------------- remote_server_binary_path
\* ReleaseChannel::dev_name, of the release_channel crate
dev_name(channel) ==
    CASE channel = "Dev" -> "Zed-Dev"
      [] channel = "Nightly" -> "Zed-Nightly"
      [] channel = "Preview" -> "Zed-Preview"
      [] channel = "Stable" -> "Zed"

\* mutant: the path does not name the channel
remote_server_path_fixed(channel) == <<".local/zed-remote-server">>

\* format!(".local/zed-remote-server-{}", release_channel.dev_name()), as the
\* parts that are joined
remote_server_path(channel) == <<".local/zed-remote-server-", dev_name(channel)>>

\* SshClientDelegate::remote_server_binary_path, called by the transport
remote_server_binary_path ==
    /\ hs = "running"
    /\ remote_path' = Some(Ok(remote_server_path(release_channel)))
    /\ UNCHANGED <<cfgVars, setVars, uiVars, chan, known_password, winVars, ctlVars, resVars>>

\* ------------------------------------------------------------------ system
Next ==
    \/ OpenWindow
    \/ \E m \in PromptMsgs : ask_password(m)
    \/ \E st \in TransportStatuses : delegate_set_status(st)
    \/ \E i \in PromptIds : Abandon(i)
    \/ HandshakeSucceed
    \/ HandshakeFail
    \/ \E t \in Texts : Type(t)
    \/ ModalConfirm
    \/ Dismiss
    \/ AwaitHandshake
    \/ \E ok \in BOOLEAN : WorktreeDone(ok)
    \/ \E pf \in Platforms : get_server_binary(pf)
    \/ ImplStart
    \/ \E ok \in BOOLEAN : CmdExit(ok)
    \/ \E r \in FetchReplies : FetchReturns(r)

Spec == Init /\ [][Next]_vars

\* the handshake ends, one way or the other, unless it waits for an answer
HandshakeEnds == HandshakeSucceed \/ (~Waiting /\ HandshakeFail)

\* What the executor guarantees: a task whose await is ready is polled.  The
\* transport is owed to react to a refusal and to end when it waits for no
\* answer; commands and queries return.
Fairness ==
    /\ WF_vars(HandshakeAbort)
    /\ WF_vars(HandshakeEnds)
    /\ WF_vars(AwaitHandshake)
    /\ WF_vars(\E ok \in BOOLEAN : WorktreeDone(ok))
    /\ WF_vars(ImplStart)
    /\ WF_vars(\E ok \in BOOLEAN : CmdExit(ok))
    /\ WF_vars(\E r \in FetchReplies : FetchReturns(r))

FairSpec == Spec /\ Fairness

\* The prompt and the install path under every release channel: the attempt
\* without paths and without the build and handshake results
InitPath ==
    /\ InitState(AllReleaseChannels)
    /\ npaths = 0
    /\ ~debug_assertions
    /\ NoSettings

NextPath ==
    \/ OpenWindow
    \/ \E m \in PromptMsgs : ask_password(m)
    \/ \E st \in TransportStatuses : delegate_set_status(st)
    \/ \E t \in Texts : Type(t)
    \/ ModalConfirm
    \/ Dismiss
    \/ remote_server_binary_path

PathSpec == InitPath /\ [][NextPath]_vars

\* --------------------------------------------------- InlineGitBlameControl
\* InlineGitBlameControl::apply on settings.git.inline_blame: the content
\* after the call
apply(settings, value) ==
    IF settings # None
    THEN Some([settings[1] EXCEPT !.enabled = value])
    ELSE Some([enabled |-> FALSE, others |-> DefaultFields])

\* the match of the checkbox callback
SelectionValue(selection) == selection = "Selected"

\* the checkbox callback: write(value), which applies the value to the
\* settings file
Click(selection) ==
    /\ Len(written) < MaxClicks
    /\ inline_blame' = apply(inline_blame, SelectionValue(selection))
    /\ written' = Append(written, SelectionValue(selection))
    /\ UNCHANGED <<cfgVars, uiVars, chan, known_password, winVars, ctlVars, resVars, remote_path>>

\* The settings panel alone, over every prior content of git.inline_blame
InitSettings ==
    /\ InitState({"Stable"})
    /\ password = None
    /\ npaths = 0
    /\ ~debug_assertions
    /\ inline_blame \in {None} \cup {Some(b) : b \in InlineBlameSettings}
    /\ written = <<>>

NextSettings == \E selection \in Selections : Click(selection)

SettingsSpec == InitSettings /\ [][NextSettings]_vars

\* ================================================================ claims
SenderAlive(i) == chan[i].st \in {"pending", "abandoned"}
HasChild(children, c) == \E k \in 1..Len(children) : children[k] = c
Rendered == Render(status_message, prompt)
Events(kind) == SelectSeq(rlog, LAMBDA e : e.ev = kind)

\* C1: in an attempt started with a password only the first ask_password call
\* is answered from the cached password; no later call is.
C1_OnlyFirstCallFromCache ==
    \A i \in PromptIds : chan[i].by = "cache" => i = 1

\* C2: at most one unanswered prompt's sender is held, the one in the prompt
\* slot; a set_prompt that replaces a pending prompt cancels the earlier
\* waiter, and a cancelled waiter is never delivered an answer afterwards.
C2_Step ==
    /\ \A i \in PromptIds :
          SenderAlive(i)' => (prompt' # None /\ prompt'[1].tx = i)
    /\ \A i \in PromptIds :
          (prompt # None /\ prompt[1].tx = i /\ prompt' # None /\ prompt'[1].tx # i)
              => chan'[i].st \in {"cancelled", "closed"}
    /\ \A i \in PromptIds :
          chan[i].st = "cancelled" => chan'[i] = chan[i]
C2_SingleSlotCancelsEarlier == [][C2_Step]_vars

\* C2 witness: the first prompt was replaced by the second, which the operator
\* then answered; the first waiter saw cancellation.
C2_Witness ==
    /\ chan[1].st = "cancelled"
    /\ chan[2].st = "answered" /\ chan[2].by = "operator" /\ chan[2].val # ""

\* C3: when the operator dismisses while a prompt is pending and the handshake
\* is running, that prompt's waiter eventually resolves with cancellation
\* (unless the transport itself stopped waiting for it).
C3_DismissCancelsWaiter ==
    \A i \in PromptIds :
        (window = "removed" /\ hs = "running" /\ chan[i].st = "pending")
            ~> (chan[i].st = "cancelled" \/ chan[i].st \in {"abandoned", "closed"})

\* C4: without a supplied password, a dismissal while the password prompt is
\* unanswered ends open_ssh_project with an error and no window left open.
C4_DismissFailsAttempt ==
    (/\ password = None /\ window = "removed" /\ hs = "running"
     /\ \E i \in PromptIds : chan[i].st = "pending" /\ chan[i].msg = <<"Password:">>)
        ~> (opj = "done_err" /\ window # "open")

\* C5: whenever open_ssh_project has returned an error after creating its
\* window, that window is removed.
C5_FailureRemovesWindow ==
    opj = "done_err" => window = "removed"

\* C6: after a dismissal during the handshake no session is handed to the
\* project layer, no worktree is created and no view is swapped.
C6_DismissDiscardsResult ==
    dismissed_in = "running" =>
        (sessions_handed = 0 /\ worktrees = 0 /\ root # "remote")

\* C7: while a prompt is pending the rendered surface contains that prompt's
\* message and the input field, whatever the status is.
C7_PendingPromptRendered ==
    \A i \in PromptIds :
        SenderAlive(i) =>
            /\ HasChild(Rendered, Label(chan[i].msg))
            /\ HasChild(Rendered, EditorChild)

\* C7 witness: a prompt is pending and a status was set after it.
C7_Witness ==
    /\ \E i \in PromptIds : chan[i].st = "pending"
    /\ status_message = Some("connecting")
    /\ HasChild(Rendered, EditorChild)

\* C8: the status line and the pending prompt are never rendered together.
C8_StatusXorPrompt ==
    (prompt # None /\ status_message # None) =>
        ~HasChild(Rendered, Label(<<status_message[1]>>))

\* C9: in the local-build branch the commands run in the order cargo, strip,
\* gzip, each started right after the previous one exited successfully, and
\* none after a failed one.
C9_BuildOrderFailFast ==
    /\ \A k \in 1..Len(Events("run")) : Events("run")[k].what = BuildCommands[k]
    /\ \A k \in 1..Len(rlog) :
          (rlog[k].ev = "run" /\ rlog[k].what # BuildCommands[1])
              => rlog[k - 1] = Ev("exit", "ok")
    /\ \A k \in 1..Len(rlog) :
          rlog[k] = Ev("exit", "fail") => k = Len(rlog)

\* C9 witness: cargo succeeded, strip failed, resolution ended without gzip.
C9_Witness ==
    /\ rpc = "done"
    /\ rlog = <<Ev("status", StatusBuilding), Ev("run", "cargo"), Ev("exit", "ok"),
                Ev("run", "strip"), Ev("exit", "fail")>>

\* C10: outside a development build, or for a platform that is not the local
\* one, no build command runs, the release-fetch collaborator is queried
\* exactly once, and the result is its answer, a failure unchanged.
C10_ReleasePathOnce ==
    ((~debug_assertions \/ release_channel # "Dev"
        \/ platform.os # LocalOS \/ platform.arch # LocalArch)
     /\ rpc \notin {"idle", "spawned"})
    => /\ Events("run") = <<>>
       /\ Len(Events("fetch")) = 1
       /\ rpc \in {"fetch", "done"}
       /\ rpc = "done" =>
            /\ fetch_reply # None
            /\ ~fetch_reply[1].ok => rresult = fetch_reply
            /\ fetch_reply[1].ok => (rresult # None /\ rresult[1].ok)

\* C10 witness: a stable build asked for the local platform, and the lookup
\* failed.
C10_Witness ==
    /\ rpc = "done"
    /\ release_channel = "Stable"
    /\ platform = [os |-> LocalOS, arch |-> LocalArch]
    /\ fetch_reply = Some(Err("lookup failed"))
    /\ rresult = fetch_reply

\* C11: in a development build asked for the local platform the release-fetch
\* collaborator is never queried; a failed build step ends resolution with an
\* error, and three successful steps return the local artifact with the
\* application's version.
C11_LocalBuildNoFallback ==
    (/\ debug_assertions /\ release_channel = "Dev"
     /\ platform.os = LocalOS /\ platform.arch = LocalArch
     /\ rpc \notin {"idle", "spawned"})
    => /\ Events("fetch") = <<>> /\ fetch_reply = None
       /\ rpc \in {"cargo", "strip", "gzip", "done"}
       /\ Len(Events("run")) >= 1
       /\ rpc = "done" =>
            /\ rresult # None
            /\ rlog[Len(rlog)] = Ev("exit", "fail") => ~rresult[1].ok
            /\ rlog[Len(rlog)] = Ev("exit", "ok") =>
                 /\ Len(Events("run")) = 3
                 /\ rresult[1].ok
                 /\ rresult[1].val = <<LocalArtifact, "app version">>

\* C11 witness: the three commands succeeded and the local artifact came back.
C11_Witness ==
    /\ debug_assertions /\ release_channel = "Dev"
    /\ rpc = "done"
    /\ Len(Events("exit")) = 3
    /\ rresult # None /\ rresult[1].ok
    /\ rresult[1].val = <<LocalArtifact, "app version">>

\* C12: once find_or_create_worktree failed for a path, open_ssh_project has
\* returned an error, no later path's worktree was started, and the root view
\* is not the remote workspace.
C12_WorktreeFailureIsFatal ==
    wt_failed # 0 =>
        /\ opj = "done_err"
        /\ worktrees = wt_failed
        /\ root # "remote"
        /\ hs = "ok"

\* C12 witness: the first of two paths failed.
C12_Witness ==
    /\ npaths = 2 /\ wt_failed = 1 /\ opj = "done_err"

\* C13 as stated: when the handshake succeeded and every path's worktree was
\* created, open_ssh_project returned Ok with the session handed over once, the
\* root view replaced and the prompt surface gone.
AllWorktreesCreated ==
    /\ hs = "ok" /\ opj \in {"done_ok", "done_err"}
    /\ wt_failed = 0 /\ worktrees = npaths
Connected ==
    /\ opj = "done_ok"
    /\ sessions_handed = 1
    /\ root = "remote"
    /\ ~(window = "open" /\ root = "local")
C13_SuccessReachesConnected ==
    AllWorktreesCreated => Connected

\* C13 as amended: the same, provided the window was not removed before the
\* view swap; and the root view is the remote workspace only after all
\* worktrees exist and the session was handed over once.
C13_SuccessConnectsOpenWindow ==
    /\ (AllWorktreesCreated /\ window = "open") => Connected
    /\ root = "remote" => (AllWorktreesCreated /\ Connected)
    /\ opj = "done_ok" => (AllWorktreesCreated /\ Connected)

\* C13 witness: two worktrees were created and the view was swapped.
C13_Witness ==
    /\ npaths = 2 /\ worktrees = 2 /\ Connected

\* C14: a confirm with a pending prompt sends the input text to that prompt's
\* sender, clears the input and the prompt and touches no other channel; a
\* confirm without a prompt changes nothing; an answered channel never changes.
C14_Step ==
    /\ ModalConfirm =>
          IF prompt # None
          THEN /\ chan[prompt[1].tx].st = "pending" =>
                    chan'[prompt[1].tx] =
                        [st |-> "answered", msg |-> <<>>, val |-> editor_text,
                         by |-> "operator"]
               /\ \A i \in PromptIds : i # prompt[1].tx => chan'[i] = chan[i]
               /\ editor_text' = ""
               /\ prompt' = None
          ELSE UNCHANGED <<uiVars, chan>>
    /\ \A i \in PromptIds : chan[i].st = "answered" => chan'[i] = chan[i]
C14_ConfirmDeliversOnce == [][C14_Step]_vars

\* C14 witness: the operator's text reached the first prompt's waiter and the
\* input and the prompt are cleared.
C14_Witness ==
    /\ chan[1] = [st |-> "answered", msg |-> <<>>, val |-> "123456", by |-> "operator"]
    /\ editor_text = "" /\ prompt = None

\* C15: remote_server_binary_path depends on the release channel alone: a
\* later call returns what the earlier one returned, different channels have
\* different paths, and a call changes no prompt, status or password state.
C15_Step ==
    /\ \A c1, c2 \in AllReleaseChannels :
          c1 # c2 => remote_server_path(c1) # remote_server_path(c2)
    /\ remote_path' # None => remote_path' = Some(Ok(remote_server_path(release_channel)))
    /\ (remote_path # None /\ remote_path' # None) => remote_path' = remote_path
    /\ remote_server_binary_path => UNCHANGED <<uiVars, chan, known_password>>
C16_StatusBeforeEachStep ==
    \A k \in 1..Len(rlog) :
        rlog[k].ev \in {"run", "fetch"} => (k > 1 /\ rlog[k - 1].ev = "status")

\* C17: a status update leaves the prompt, its channel, the input and the
\* masking mode as they were; a newly set prompt comes with the status cleared.
C17_Step ==
    /\ ((\E st \in TransportStatuses : delegate_set_status(st)) \/ ImplStart)
          => UNCHANGED <<prompt, chan, editor_text, redact_all>>
    /\ (prompt' # None /\ prompt' # prompt) => status_message' = None
C17_StatusFrame == [][C17_Step]_vars

\* C17 witness: a status was set while a prompt was pending and text typed.
C17_Witness ==
    /\ status_message = Some("connecting")
    /\ prompt # None /\ chan[prompt[1].tx].st = "pending"
    /\ editor_text = "123456"
    /\ redact_all

\* C18: while a prompt is pending the input is masked exactly when its
\* message does not contain "yes/no", whatever the mode was before.
C18_Step ==
    /\ prompt' # None => (redact_all' <=> ~Contains(prompt'[1].msg, "yes/no"))
    /\ (prompt' # None /\ prompt' # prompt) =>
          (redact_all' <=> \A k \in 1..Len(prompt'[1].msg) : prompt'[1].msg[k] # "yes/no")
C18_MaskFollowsMessage == [][C18_Step]_vars

\* C18 witness: the second prompt, a secret, is masked (the first was replaced).
C18_Witness ==
    /\ prompt # None /\ prompt[1].tx = 2 /\ prompt[1].msg = <<"Password:">>
    /\ redact_all
    /\ chan[1].st = "cancelled"

\* C19: a confirm whose waiter was abandoned delivers nothing and still clears
\* the prompt and the input.
C19_Step ==
    (ModalConfirm /\ prompt # None /\ chan[prompt[1].tx].st = "abandoned")
        => /\ prompt' = None
           /\ editor_text' = ""
           /\ chan'[prompt[1].tx].st = "closed"
           /\ \A i \in PromptIds : chan'[i].st = "answered" => chan'[i] = chan[i]
C19_ConfirmAfterAbandon == [][C19_Step]_vars

\* C19 witness: the only prompt was abandoned and then confirmed.
C19_Witness ==
    /\ Calls = 1 /\ chan[1].st = "closed"
    /\ hs = "running" /\ window = "open"
    /\ prompt = None /\ editor_text = ""

\* C20: with no cached password and the window removed, ask_password registers
\* no prompt and its waiter is cancelled in the call; a status update after the
\* removal changes nothing.
C20_Step ==
    /\ ((\E m \in PromptMsgs : ask_password(m)) /\ known_password = None
            /\ window # "open")
          => /\ chan'[Calls + 1].st = "cancelled"
             /\ UNCHANGED uiVars
    /\ ((\E st \in TransportStatuses : delegate_set_status(st)) /\ window # "open")
          => UNCHANGED <<uiVars, chan>>
C20_RemovedWindowCalls == [][C20_Step]_vars

\* C20 witness: the first ask_password came after the dismissal.
C20_Witness ==
    /\ window = "removed" /\ hs = "running" /\ known_password = None
    /\ Calls = 1 /\ chan[1].st = "cancelled"
    /\ prompt = None

\* C21: after InlineGitBlameControl::apply(settings, value), for either value
\* and whether inline_blame was absent or present before, the settings hold
\* an inline_blame entry whose enabled flag equals value.
C21_ApplySetsEnabled ==
    written # <<>> =>
        /\ inline_blame # None
        /\ inline_blame[1].enabled = written[Len(written)]

====
